---- MODULE Spec2Model ----
(***************************************************************************)
(* ADU planner: the Boundary Edit Session of PropertyMap, the vision       *)
(* requests of PropertyMap / PropertyPlanner / the test-capture page and   *)
(* the ConstraintLayer rebuild.                                            *)
(*                                                                         *)
(* Coordinates are points of a small integer grid.  The external           *)
(* google.maps.geometry.spherical.computeArea is represented by the planar *)
(* polygon area of the grid (in units of half a grid cell).                *)
(***************************************************************************)
EXTENDS Integers, Sequences, FiniteSets, TLC

\* ---------------------------------------------------------------- bounds
\* index of the last grid point that inputs may use (points 0..MaxPt)
MaxPt == 2
\* longest coordinate list in a response of the vision model
MaxPts == 3
\* most vertices of a polygon drawn with the drawing tool
MaxDrawn == 6
\* longest side of the rectangles the constraint rings are cut from
MaxSide == 1
\* most structures in one constraint analysis
MaxStructs == 2
\* most handleAnalyze calls suspended at a time
MaxCalls == 2
\* most pieces (fence, prose, brace, JSON text) in the content of a model reply
MaxTokens == 3
\* most structures in the JSON of a model reply
MaxRouteStructs == 1

\* greatest number read from a text of the analysis
MaxParsed == 3

\* maps a DrawingTools can be given
MaxMaps == 2

\* versions of the callbacks a DrawingTools can be given
MaxCallbacks == 2

\* drawing managers created
MaxManagers == 6

\* ------------------------------------------------------------- geometry
\* grid point number k, enumerated row by row on a grid of two columns
Pt(k) == [lat |-> k \div 2, lng |-> k % 2]

Points == {Pt(k) : k \in 0..MaxPt}

\* all point lists of length lo..hi
PointLists(lo, hi) == UNION {[1..n -> Points] : n \in lo..hi}

\* the value JavaScript yields for an index outside an array
Undefined == [undef |-> TRUE]

\* arr[i] of JavaScript, i counted from 1
At(arr, i) == IF i \in 1..Len(arr) THEN arr[i] ELSE Undefined

\* arr.slice(0, n)
SliceTo(arr, n) == SubSeq(arr, 1, IF n < Len(arr) THEN n ELSE Len(arr))

\* arr.slice(0, -1)
DropLast(arr) == SubSeq(arr, 1, Len(arr) - 1)

Abs(n) == IF n < 0 THEN 0 - n ELSE n

Cross(p, q) == p.lat * q.lng - q.lat * p.lng

RECURSIVE ShoelaceSum(_, _)
ShoelaceSum(path, i) ==
  IF i > Len(path) THEN 0
  ELSE Cross(path[i], path[(i % Len(path)) + 1]) + ShoelaceSum(path, i + 1)

\* google.maps.geometry.spherical.computeArea: unsigned area of the loop
computeArea(path) == IF Len(path) < 3 THEN 0 ELSE Abs(ShoelaceSum(path, 1))

\* Math.round(area * 10.764)
ToSqFt(area) == (area * 10764 + 500) \div 1000

\* window.google && window.google.maps.geometry
GeometryLoaded == TRUE

\* measurements.area === null
NullArea == -1

\* onConstraintsReady was not called
NoValue == -1

\* [...markers, markers[0]]
AppendFirst(markers) == Append(markers, At(markers, 1))

\* ---------------------------------------------------------------- state
VARIABLES
  map,                \* externalMap is set
  drawingMode,        \* externalDrawingMode: "polygon" or "null"
  boundaryPath,
  cornerMarkers,
  isBoundaryLocked,
  boundaryFromAI,
  measurementsArea,   \* measurements.area, NullArea for null
  isAnalyzing,        \* PropertyMap's busy flag
  queryPending,       \* handleOpenAIQuery is suspended at an await
  clearedSinceStart,  \* history: Clear Drawing ran since the pending query started
  lastOp,             \* history: the handler that ran last, with its input
  \* PropertyPlanner
  plannerAnalyzing,   \* PropertyPlanner's isAnalyzing
  analysisError,      \* "null" or the message shown
  visionAnalysis,     \* "null" or "data"
  showAnalysis,
  analyzePending,     \* number of analyzePropertyWithVision calls suspended at an await
  \* test-capture page
  captureAnalyzing,   \* the page's isAnalyzing
  captureError,       \* "null" or the message shown
  constraintAnalysis, \* Undefined for null/undefined, else data.processed
  showConstraints,
  capturePending,     \* number of handleAnalyze calls suspended at an await
  pageCrashed,        \* a render of the page threw
  \* ConstraintLayer
  layerMounted,
  layerProps,         \* the props of the latest effect run
  constraints,        \* constraints.current
  attached,           \* ids of the polygons whose map is set
  emitted,            \* what the latest effect run passed to onConstraintsReady
  \* the vision routes
  routeRequest,       \* the request a POST handler is called with
  routeResponse,       \* the response it returned
  \* DrawingTools
  toolsMounted,
  toolsMap,           \* the map prop: 0 for null
  toolsMode,          \* the drawingMode prop: "polygon" or "null"
  toolsCallback,      \* the version of the callback props
  drawingManagerRef,  \* drawingManagerRef.current: a manager's id, 0 for null
  managers,           \* the drawing managers whose map is set
  hasCleanup,         \* the latest effect run returned its cleanup
  managersCreated     \* number of drawing managers created so far

sessionVars == <<boundaryPath, cornerMarkers, isBoundaryLocked, boundaryFromAI,
                 measurementsArea>>

plannerVars == <<plannerAnalyzing, analysisError, visionAnalysis, showAnalysis,
                 analyzePending>>

captureVars == <<captureAnalyzing, captureError, constraintAnalysis,
                 showConstraints, capturePending, pageCrashed>>

layerVars == <<layerMounted, layerProps, constraints, attached, emitted>>

routeVars == <<routeRequest, routeResponse>>

toolsVars == <<toolsMounted, toolsMap, toolsMode, toolsCallback,
               drawingManagerRef, managers, hasCleanup, managersCreated>>

\* what the handlers of PropertyMap never write
outsideMap == <<plannerVars, captureVars, layerVars, routeVars, toolsVars>>

vars == <<map, drawingMode, boundaryPath, cornerMarkers, isBoundaryLocked,
          boundaryFromAI, measurementsArea, isAnalyzing,
          queryPending, clearedSinceStart, lastOp, plannerVars, captureVars,
          layerVars, routeVars, toolsVars>>

Op(name, pts, idx, pos) == [name |-> name, pts |-> pts, idx |-> idx, pos |-> pos]

Op0(name) == Op(name, <<>>, 0, Undefined)

\* state after construction and the mount reset effect
Init ==
  /\ map = FALSE
  /\ drawingMode = "null"
  /\ boundaryPath = <<>>
  /\ cornerMarkers = <<>>
  /\ isBoundaryLocked = FALSE
  /\ boundaryFromAI = FALSE
  /\ measurementsArea = NullArea
  /\ isAnalyzing = FALSE
  /\ queryPending = FALSE
  /\ clearedSinceStart = FALSE
  /\ lastOp = Op0("init")
  /\ plannerAnalyzing = FALSE
  /\ analysisError = "null"
  /\ visionAnalysis = "null"
  /\ showAnalysis = FALSE
  /\ analyzePending = 0
  /\ captureAnalyzing = FALSE
  /\ captureError = "null"
  /\ constraintAnalysis = Undefined
  /\ showConstraints = FALSE
  /\ capturePending = 0
  /\ pageCrashed = FALSE
  /\ layerMounted = FALSE
  /\ layerProps = Undefined
  /\ constraints = <<>>
  /\ attached = {}
  /\ emitted = NoValue
  /\ routeRequest = Undefined
  /\ routeResponse = Undefined
  /\ toolsMounted = FALSE
  /\ toolsMap = 0
  /\ toolsMode = "null"
  /\ toolsCallback = 1
  /\ drawingManagerRef = 0
  /\ managers = {}
  /\ hasCleanup = FALSE
  /\ managersCreated = 0

\* GoogleMap onLoad
OnLoad ==
  /\ ~map
  /\ map' = TRUE
  /\ lastOp' = Op0("onLoad")
  /\ UNCHANGED <<drawingMode, boundaryPath, cornerMarkers, isBoundaryLocked,
                 boundaryFromAI, measurementsArea, isAnalyzing,
                 queryPending, clearedSinceStart>>
  /\ UNCHANGED outsideMap

\* the parent switches the drawing tool on
StartDrawing ==
  /\ map
  /\ boundaryPath = <<>>
  /\ drawingMode = "null"
  /\ drawingMode' = "polygon"
  /\ lastOp' = Op0("startDrawing")
  /\ UNCHANGED <<map, boundaryPath, cornerMarkers, isBoundaryLocked,
                 boundaryFromAI, measurementsArea, isAnalyzing,
                 queryPending, clearedSinceStart>>
  /\ UNCHANGED outsideMap

\* PolygonComplete keeping every drawn point as a corner
PolygonComplete_AllPoints(polygon) ==
  /\ map
  /\ drawingMode = "polygon"
  /\ LET path == DropLast(polygon)
     IN /\ measurementsArea' = computeArea(polygon)
        /\ cornerMarkers' = path
        /\ boundaryPath' = Append(path, At(path, 1))
        /\ lastOp' = Op("completeDrawing", path, 0, Undefined)
  /\ drawingMode' = "null"
  /\ UNCHANGED <<map, isBoundaryLocked, boundaryFromAI,
                 isAnalyzing, queryPending, clearedSinceStart>>
  /\ UNCHANGED outsideMap

\* DrawingTools' polygoncomplete listener followed by PropertyMap's
\* onBoundaryComplete(path)
PolygonComplete(polygon) ==
  /\ map
  /\ drawingMode = "polygon"
  /\ LET path == DropLast(polygon)
     IN /\ measurementsArea' = computeArea(polygon)
        /\ cornerMarkers' = SliceTo(path, 4)
        /\ boundaryPath' = Append(SliceTo(path, 4), At(path, 1))
        /\ lastOp' = Op("completeDrawing", path, 0, Undefined)
  /\ drawingMode' = "null"
  /\ UNCHANGED <<map, isBoundaryLocked, boundaryFromAI,
                 isAnalyzing, queryPending, clearedSinceStart>>
  /\ UNCHANGED outsideMap

\* handleMarkerDrag that measures the area whatever the source is
handleMarkerDrag_AlwaysArea(index, position) ==
  /\ index \in 1..Len(cornerMarkers)
  /\ LET newMarkers == [cornerMarkers EXCEPT ![index] = position]
     IN /\ cornerMarkers' = newMarkers
        /\ boundaryPath' = AppendFirst(newMarkers)
        /\ measurementsArea' = ToSqFt(computeArea(newMarkers))
  /\ lastOp' = Op("dragCorner", <<>>, index, position)
  /\ UNCHANGED <<map, drawingMode, isBoundaryLocked, boundaryFromAI, isAnalyzing, queryPending, clearedSinceStart>>
  /\ UNCHANGED outsideMap

\* handleMarkerDrag(index, position), reached from a corner Marker's onDragEnd
handleMarkerDrag(index, position) ==
  /\ index \in 1..Len(cornerMarkers)
  /\ LET newMarkers == [cornerMarkers EXCEPT ![index] = position]
     IN /\ cornerMarkers' = newMarkers
        /\ boundaryPath' = AppendFirst(newMarkers)
        /\ measurementsArea' =
             IF boundaryFromAI /\ GeometryLoaded
             THEN ToSqFt(computeArea(newMarkers))
             ELSE measurementsArea
  /\ lastOp' = Op("dragCorner", <<>>, index, position)
  /\ UNCHANGED <<map, drawingMode, isBoundaryLocked, boundaryFromAI, isAnalyzing, queryPending, clearedSinceStart>>
  /\ UNCHANGED outsideMap

\* positions a drag can end at: e.latLng in units of half a grid step
HalfPoints == {[lat |-> a, lng |-> b] : a \in 0..(2 * (MaxPt \div 2)), b \in 0..2}

\* marker moved by the offset given in half grid steps
Translate(marker, latDiff2, lngDiff2) ==
  [lat |-> marker.lat + latDiff2 \div 2, lng |-> marker.lng + lngDiff2 \div 2]

\* PolygonDragEnd that moves the first corner only
PolygonDragEnd_FirstOnly(newCenter2) ==
  /\ Len(boundaryPath) > 2
  /\ IF Len(cornerMarkers) < 3
     THEN /\ lastOp' = Op("dragWholeBoundaryThrow", <<>>, 0, newCenter2)
          /\ UNCHANGED <<cornerMarkers, boundaryPath>>
     ELSE LET latDiff2 == newCenter2.lat - (cornerMarkers[1].lat + cornerMarkers[3].lat)
              lngDiff2 == newCenter2.lng - (cornerMarkers[1].lng + cornerMarkers[3].lng)
              newMarkers == [cornerMarkers EXCEPT
                               ![1] = Translate(cornerMarkers[1], latDiff2, lngDiff2)]
          IN /\ latDiff2 % 2 = 0
             /\ lngDiff2 % 2 = 0
             /\ \A i \in 1..Len(newMarkers) : newMarkers[i] \in Points
             /\ cornerMarkers' = newMarkers
             /\ boundaryPath' = AppendFirst(newMarkers)
             /\ lastOp' = Op("dragWholeBoundary", <<>>, 0,
                             [lat |-> latDiff2 \div 2, lng |-> lngDiff2 \div 2])
  /\ UNCHANGED <<map, drawingMode, isBoundaryLocked, boundaryFromAI,
                 measurementsArea, isAnalyzing, queryPending,
                 clearedSinceStart>>
  /\ UNCHANGED outsideMap

\* the boundary Polygon's onDragEnd; the drag ends at newCenter2 / 2.
\* Drags are taken that move the corners by whole grid steps inside the grid.
PolygonDragEnd(newCenter2) ==
  /\ Len(boundaryPath) > 2
  /\ IF Len(cornerMarkers) < 3
     THEN \* cornerMarkers[2] is undefined: reading .lat throws, nothing is set
          /\ lastOp' = Op("dragWholeBoundaryThrow", <<>>, 0, newCenter2)
          /\ UNCHANGED <<cornerMarkers, boundaryPath>>
     ELSE LET latDiff2 == newCenter2.lat - (cornerMarkers[1].lat + cornerMarkers[3].lat)
              lngDiff2 == newCenter2.lng - (cornerMarkers[1].lng + cornerMarkers[3].lng)
              newMarkers == [i \in 1..Len(cornerMarkers) |->
                               Translate(cornerMarkers[i], latDiff2, lngDiff2)]
          IN /\ latDiff2 % 2 = 0
             /\ lngDiff2 % 2 = 0
             /\ \A i \in 1..Len(newMarkers) : newMarkers[i] \in Points
             /\ cornerMarkers' = newMarkers
             /\ boundaryPath' = AppendFirst(newMarkers)
             /\ lastOp' = Op("dragWholeBoundary", <<>>, 0,
                             [lat |-> latDiff2 \div 2, lng |-> lngDiff2 \div 2])
  /\ UNCHANGED <<map, drawingMode, isBoundaryLocked, boundaryFromAI,
                 measurementsArea, isAnalyzing, queryPending,
                 clearedSinceStart>>
  /\ UNCHANGED outsideMap

\* "Lock & Continue"
Lock ==
  /\ Len(boundaryPath) > 0
  /\ ~isBoundaryLocked
  /\ isBoundaryLocked' = TRUE
  /\ lastOp' = Op0("lock")
  /\ UNCHANGED <<map, drawingMode, boundaryPath, cornerMarkers, boundaryFromAI,
                 measurementsArea, isAnalyzing, queryPending,
                 clearedSinceStart>>
  /\ UNCHANGED outsideMap

\* "Edit Boundary"
Unlock ==
  /\ Len(boundaryPath) > 0
  /\ isBoundaryLocked
  /\ isBoundaryLocked' = FALSE
  /\ lastOp' = Op0("unlock")
  /\ UNCHANGED <<map, drawingMode, boundaryPath, cornerMarkers, boundaryFromAI,
                 measurementsArea, isAnalyzing, queryPending,
                 clearedSinceStart>>
  /\ UNCHANGED outsideMap

\* ClearDrawing without setBoundaryFromAI(false)
ClearDrawing_KeepsSource ==
  /\ Len(boundaryPath) > 0
  /\ ~isBoundaryLocked
  /\ drawingMode' = "null"
  /\ boundaryPath' = <<>>
  /\ cornerMarkers' = <<>>
  /\ measurementsArea' = NullArea
  /\ clearedSinceStart' = queryPending
  /\ lastOp' = Op0("clear")
  /\ UNCHANGED <<map, isBoundaryLocked, boundaryFromAI, isAnalyzing, queryPending>>
  /\ UNCHANGED outsideMap

\* "Clear Drawing"
ClearDrawing ==
  /\ Len(boundaryPath) > 0
  /\ ~isBoundaryLocked
  /\ drawingMode' = "null"
  /\ boundaryPath' = <<>>
  /\ cornerMarkers' = <<>>
  /\ measurementsArea' = NullArea
  /\ boundaryFromAI' = FALSE
  /\ clearedSinceStart' = queryPending
  /\ lastOp' = Op0("clear")
  /\ UNCHANGED <<map, isBoundaryLocked, isAnalyzing, queryPending>>
  /\ UNCHANGED outsideMap

\* the "Ask AI for Boundaries" button is rendered and enabled
AskAIEnabled ==
  /\ \/ Len(boundaryPath) = 0
     \/ ~isBoundaryLocked
  /\ ~isAnalyzing

\* handleOpenAIQuery up to its first await; hasBounds is map.getBounds()
StartOpenAIQuery(hasBounds) ==
  /\ AskAIEnabled
  /\ map
  /\ IF hasBounds
     THEN /\ isAnalyzing' = TRUE
          /\ queryPending' = TRUE
          /\ clearedSinceStart' = FALSE
          /\ lastOp' = Op0("startQuery")
     ELSE \* throws 'Map bounds not available': catch, finally
          /\ isAnalyzing' = FALSE
          /\ lastOp' = Op0("queryFailed")
          /\ UNCHANGED <<queryPending, clearedSinceStart>>
  /\ UNCHANGED <<map, drawingMode, boundaryPath, cornerMarkers, isBoundaryLocked,
                 boundaryFromAI, measurementsArea>>
  /\ UNCHANGED outsideMap

\* what the awaits of a request can end in, other than a usable body
Failures == {"captureFailed", "fetchFailed", "notOk", "badBody", "noBoundary"}

\* outcomes of handleOpenAIQuery's awaits: a failure, or a body whose
\* data.parsed.propertyBoundary.coordinates is a point list
QueryOutcomes ==
  {[kind |-> f, coordinates |-> <<>>] : f \in Failures}
    \cup {[kind |-> "ok", coordinates |-> r] : r \in PointLists(0, MaxPts)}

\* OpenAIResponse without setIsBoundaryLocked(true)
OpenAIResponse_NoLock(outcome) ==
  /\ queryPending
  /\ IF outcome.kind \in Failures
     THEN /\ lastOp' = Op0("queryFailed")
          /\ UNCHANGED <<boundaryPath, cornerMarkers, boundaryFromAI, measurementsArea>>
     ELSE /\ boundaryPath' = AppendFirst(outcome.coordinates)
          /\ cornerMarkers' = outcome.coordinates
          /\ boundaryFromAI' = TRUE
          /\ measurementsArea' =
               IF GeometryLoaded THEN ToSqFt(computeArea(outcome.coordinates))
               ELSE measurementsArea
          /\ lastOp' = Op("aiDetect", outcome.coordinates, 0, Undefined)
  /\ isAnalyzing' = FALSE
  /\ queryPending' = FALSE
  /\ clearedSinceStart' = FALSE
  /\ UNCHANGED <<map, drawingMode, isBoundaryLocked>>
  /\ UNCHANGED outsideMap

\* handleOpenAIQuery from its awaits on
OpenAIResponse(outcome) ==
  /\ queryPending
  /\ IF outcome.kind \in Failures
     THEN /\ lastOp' = Op0("queryFailed")
          /\ UNCHANGED <<boundaryPath, cornerMarkers, isBoundaryLocked,
                         boundaryFromAI, measurementsArea>>
     ELSE /\ boundaryPath' = AppendFirst(outcome.coordinates)
          /\ cornerMarkers' = outcome.coordinates
          /\ isBoundaryLocked' = TRUE
          /\ boundaryFromAI' = TRUE
          /\ measurementsArea' =
               IF GeometryLoaded THEN ToSqFt(computeArea(outcome.coordinates))
               ELSE measurementsArea
          /\ lastOp' = Op("aiDetect", outcome.coordinates, 0, Undefined)
  /\ isAnalyzing' = FALSE
  /\ queryPending' = FALSE
  /\ clearedSinceStart' = FALSE
  /\ UNCHANGED <<map, drawingMode>>
  /\ UNCHANGED outsideMap

\* ------------------------------------------------------ PropertyPlanner
mapVars == <<map, drawingMode, boundaryPath, cornerMarkers, isBoundaryLocked,
             boundaryFromAI, measurementsArea, isAnalyzing, queryPending,
             clearedSinceStart>>

\* what the handlers of PropertyPlanner never write
outsidePlanner == <<mapVars, captureVars, layerVars, routeVars, toolsVars>>

\* the message of the error each failed await throws
ErrorMessage(failure) ==
  CASE failure = "noBounds" -> "Map bounds not available"
    [] failure = "notOk" -> "Failed to analyze property"
    [] failure = "captureFailed" -> "capture error"
    [] failure = "fetchFailed" -> "fetch error"
    [] failure = "badBody" -> "body error"

\* analyzePropertyWithVision up to its first await
analyzePropertyWithVision(hasBounds) ==
  IF hasBounds
  THEN /\ plannerAnalyzing' = TRUE
       /\ analysisError' = "null"
       /\ analyzePending' = analyzePending + 1
       /\ lastOp' = Op0("startAnalyze")
       /\ UNCHANGED <<visionAnalysis, showAnalysis>>
  ELSE \* throws 'Map bounds not available': catch, finally
       /\ plannerAnalyzing' = FALSE
       /\ analysisError' = ErrorMessage("noBounds")
       /\ lastOp' = Op("analyzeFailed", <<>>, 0, [kind |-> "noBounds", error |-> "none"])
       /\ UNCHANGED <<visionAnalysis, showAnalysis, analyzePending>>

\* the "Analyze Property" button
StartAnalyze(hasBounds) ==
  /\ map
  /\ ~plannerAnalyzing
  /\ analyzePropertyWithVision(hasBounds)
  /\ UNCHANGED outsidePlanner

\* the "Try Again" button, rendered with the error message
TryAgain(hasBounds) ==
  /\ analysisError # "null"
  /\ map
  /\ analyzePropertyWithVision(hasBounds)
  /\ UNCHANGED outsidePlanner

\* the error member of the body of a response that is not ok
ServiceErrors == {"Image URL or data URL is required", "No analysis generated"}

\* how the awaits of analyzePropertyWithVision end; a response that is not ok
\* carries the body { error }
AnalyzeOutcomes ==
  [kind : {"captureFailed", "fetchFailed", "badBody", "ok"}, error : {"none"}]
    \cup [kind : {"notOk"}, error : ServiceErrors]

\* analyzePropertyWithVision that unlocks the boundary when it succeeds
AnalyzeResponse_Unlocks(outcome) ==
  /\ analyzePending > 0
  /\ IF outcome.kind = "ok"
     THEN /\ visionAnalysis' = "data"
          /\ showAnalysis' = TRUE
          /\ lastOp' = Op("analyzeOk", <<>>, 0, outcome)
          /\ isBoundaryLocked' = FALSE
          /\ UNCHANGED analysisError
     ELSE /\ analysisError' = ErrorMessage(outcome.kind)
          /\ lastOp' = Op("analyzeFailed", <<>>, 0, outcome)
          /\ UNCHANGED <<visionAnalysis, showAnalysis, isBoundaryLocked>>
  /\ plannerAnalyzing' = FALSE
  /\ analyzePending' = analyzePending - 1
  /\ UNCHANGED <<map, drawingMode, boundaryPath, cornerMarkers, boundaryFromAI,
                 measurementsArea, isAnalyzing, queryPending, clearedSinceStart>>
  /\ UNCHANGED <<captureVars, layerVars, routeVars, toolsVars>>

\* analyzePropertyWithVision from its awaits on
AnalyzeResponse(outcome) ==
  /\ analyzePending > 0
  /\ IF outcome.kind = "ok"
     THEN /\ visionAnalysis' = "data"
          /\ showAnalysis' = TRUE
          /\ lastOp' = Op("analyzeOk", <<>>, 0, outcome)
          /\ UNCHANGED analysisError
     ELSE /\ analysisError' = ErrorMessage(outcome.kind)
          /\ lastOp' = Op("analyzeFailed", <<>>, 0, outcome)
          /\ UNCHANGED <<visionAnalysis, showAnalysis>>
  /\ plannerAnalyzing' = FALSE
  /\ analyzePending' = analyzePending - 1
  /\ UNCHANGED outsidePlanner

\* ------------------------------------------------------ ConstraintLayer
\* the closed loop around a rectangle of 1 x w grid cells
Loop(w) ==
  << [lat |-> 0, lng |-> 0], [lat |-> 0, lng |-> w], [lat |-> 1, lng |-> w],
     [lat |-> 1, lng |-> 0], [lat |-> 0, lng |-> 0] >>

\* coordinate lists of constraints: too short, an open and a closed loop
LayerRings == {SubSeq(Loop(w), 1, n) : w \in 1..MaxSide, n \in {2, 4, 5}}

\* an array-valued field of a response that may be missing: List(v) when it
\* is there, NoList when it is undefined
List(v) == [defined |-> TRUE, value |-> v]

NoList == [defined |-> FALSE, value |-> <<>>]

\* a coordinates field: a ring, or missing
LayerCoords == {List(r) : r \in LayerRings} \cup {NoList}

StructLists == UNION {[1..n -> [coordinates : LayerCoords]] : n \in 0..MaxStructs}

\* the constraintAnalysis and onConstraintsReady props of ConstraintLayer
LayerProps ==
  [property_boundaries :
     {NoList, List(<<>>)} \cup {List(<<[coordinates |-> c]>>) : c \in LayerCoords},
   structures : StructLists,
   observer : BOOLEAN]

\* the path of createPolygon and calculatePolygonArea: closed if it is open
closeRing(coords) ==
  IF Len(coords) >= 3 /\ coords[1] # coords[Len(coords)]
  THEN Append(coords, coords[1])
  ELSE coords

\* validateCoordinates that accepts every ring that is there
validateCoordinates_AcceptsShort(coords) == coords.defined

validateCoordinates(coords) ==
  IF ~coords.defined THEN FALSE ELSE Len(coords.value) >= 3

calculatePolygonArea(coords) ==
  IF ~coords.defined THEN 0
  ELSE IF Len(coords.value) < 3 THEN 0
  ELSE computeArea(closeRing(coords.value))

\* new google.maps.Polygon: the least id no attached polygon has
FreshId(att) ==
  CHOOSE n \in 1..(Cardinality(att) + 1) :
    n \notin att /\ \A m \in 1..(n - 1) : m \in att

\* createPolygon(coords, type): no constraint (null) or one, attached to the map
createPolygon(coords, type, att) ==
  IF ~validateCoordinates(coords) THEN <<>>
  ELSE << [polygon |-> [id |-> FreshId(att), paths |-> closeRing(coords.value)],
           type |-> type,
           area |-> calculatePolygonArea(coords),
           coordinates |-> coords.value] >>

PolygonIds(cs) == {cs[i].polygon.id : i \in 1..Len(cs)}

\* the forEach over constraintAnalysis.structures, from structure i on
RECURSIVE CreateStructures(_, _, _, _)
CreateStructures(structures, i, cs, att) ==
  IF i > Len(structures) THEN [constraints |-> cs, attached |-> att]
  ELSE LET created == createPolygon(structures[i].coordinates, "structure", att)
       IN CreateStructures(structures, i + 1, cs \o created,
                           att \cup PolygonIds(created))

RECURSIVE SumAreas(_, _)
SumAreas(cs, i) ==
  IF i > Len(cs) THEN 0
  ELSE (IF cs[i].type = "structure" THEN cs[i].area ELSE 0) + SumAreas(cs, i + 1)

\* constraints.current.find(c => c.type === 'property')?.area || 0
PropertyArea(cs) ==
  IF \E i \in 1..Len(cs) : cs[i].type = "property"
  THEN cs[CHOOSE i \in 1..Len(cs) :
            /\ cs[i].type = "property"
            /\ \A j \in 1..(i - 1) : cs[j].type # "property"].area
  ELSE 0

Max(a, b) == IF a >= b THEN a ELSE b

BuildableArea_NoClamp(cs) == PropertyArea(cs) - SumAreas(cs, 1)

\* Math.max(0, propertyArea - structureAreas)
BuildableArea(cs) == Max(0, PropertyArea(cs) - SumAreas(cs, 1))

\* EffectRun that leaves the polygons of the previous run on the map
EffectRun_KeepsOld(props, cs, att) ==
  LET property ==
        IF ~props.property_boundaries.defined THEN <<>>
        ELSE IF props.property_boundaries.value = <<>> THEN <<>>
        ELSE createPolygon(props.property_boundaries.value[1].coordinates,
                           "property", att)
      all == CreateStructures(props.structures, 1, property,
                              att \cup PolygonIds(property))
  IN [constraints |-> all.constraints,
      attached |-> all.attached,
      emitted |-> IF props.observer THEN BuildableArea(all.constraints)
                  ELSE NoValue]

\* one run of the effect: the previous run's cleanup and the effect body,
\* from the constraints cs of the previous run and the attached polygons att
EffectRun(props, cs, att) ==
  LET cleared == att \ PolygonIds(cs)
      property ==
        IF ~props.property_boundaries.defined THEN <<>>
        ELSE IF props.property_boundaries.value = <<>> THEN <<>>
        ELSE createPolygon(props.property_boundaries.value[1].coordinates,
                           "property", cleared)
      all == CreateStructures(props.structures, 1, property,
                              cleared \cup PolygonIds(property))
  IN [constraints |-> all.constraints,
      attached |-> all.attached,
      emitted |-> IF props.observer THEN BuildableArea(all.constraints)
                  ELSE NoValue]

\* EffectCleanup that detaches nothing
EffectCleanup_NoDetach(cs, att) ==
  [constraints |-> <<>>, attached |-> att, emitted |-> emitted]

\* the cleanup run when the component is removed; the ref goes with it
EffectCleanup(cs, att) ==
  [constraints |-> <<>>, attached |-> att \ PolygonIds(cs), emitted |-> emitted]

\* what the handlers of ConstraintLayer never write
outsideLayer == <<mapVars, plannerVars, captureVars, routeVars, toolsVars>>

\* ConstraintLayer is rendered with props: mount, or a change of its props
Rebuild(props) ==
  /\ LET run == EffectRun(props, constraints, attached)
     IN /\ constraints' = run.constraints
        /\ attached' = run.attached
        /\ emitted' = run.emitted
  /\ layerMounted' = TRUE
  /\ layerProps' = props
  /\ lastOp' = Op("rebuild", <<>>,
                 IF lastOp.name = "rebuild" /\ layerProps = props THEN 1 ELSE 0,
                 Undefined)
  /\ UNCHANGED outsideLayer

\* ConstraintLayer is removed
Unmount ==
  /\ layerMounted
  /\ LET run == EffectCleanup(constraints, attached)
     IN /\ constraints' = run.constraints
        /\ attached' = run.attached
        /\ emitted' = run.emitted
  /\ layerMounted' = FALSE
  /\ layerProps' = Undefined
  /\ lastOp' = Op("unmount", <<>>, Cardinality(PolygonIds(constraints)),
                 Undefined)
  /\ UNCHANGED outsideLayer

\* ------------------------------- ConstraintLayer, visionAnalysis variant
\* an optional field of an object whose value is not an array
Absent == [defined |-> FALSE, value |-> Undefined]

Present(v) == [defined |-> TRUE, value |-> v]

\* SetbackAndBuildableAreaAnalysis.BuildableArea by what match(/(\d+)/) finds
\* in it: Absent for a missing text or one without a digit, Present(n) for a
\* text whose first run of digits reads n
AreaTexts == {Absent} \cup {Present(n) : n \in 0..MaxParsed}

\* the visionAnalysis and onConstraintsReady props, with the coordinates that
\* estimateMainHouseCoordinates and the setback polygon are built from
VisionProps ==
  [BuildableArea : AreaTexts,
   mainHouseCoords : {List(r) : r \in LayerRings},
   setbackCoords : LayerCoords,
   observer : BOOLEAN]

\* the rectangle south of the map centre
frontYardCoords == List(SubSeq(Loop(1), 1, 4))

\* constraints.current.reduce((sum, c) => sum + c.area, 0)
RECURSIVE totalConstrainedArea(_, _)
totalConstrainedArea(cs, i) ==
  IF i > Len(cs) THEN 0 ELSE cs[i].area + totalConstrainedArea(cs, i + 1)

\* the constraints of the previous run are taken off the map and forgotten
ClearConstraints(cs, att) == att \ PolygonIds(cs)

\* the argument of onConstraintsReady, in tenths of a square unit:
\* buildableArea || (totalConstrainedArea * 0.6), where 0 and null are falsy
VisionAggregate(buildableAreaMatch, total) ==
  LET buildableArea == IF buildableAreaMatch.defined
                       THEN buildableAreaMatch.value ELSE 0
  IN IF buildableArea # 0 THEN 10 * buildableArea ELSE 6 * total

\* one run of the effect of the visionAnalysis variant
VisionEffectRun(props, cs, att) ==
  LET cleared == ClearConstraints(cs, att)
      mainHouse == createPolygon(props.mainHouseCoords, "structure", cleared)
      att1 == cleared \cup PolygonIds(mainHouse)
      setback == IF mainHouse = <<>> THEN <<>>
                 ELSE createPolygon(props.setbackCoords, "setback", att1)
      att2 == att1 \cup PolygonIds(setback)
      frontYard == createPolygon(frontYardCoords, "frontYard", att2)
      all == mainHouse \o setback \o frontYard
  IN [constraints |-> all,
      attached |-> att2 \cup PolygonIds(frontYard),
      emitted |-> IF props.observer
                  THEN VisionAggregate(props.BuildableArea,
                                       totalConstrainedArea(all, 1))
                  ELSE NoValue]

\* the visionAnalysis variant is rendered with props
RebuildVision(props) ==
  /\ LET run == VisionEffectRun(props, constraints, attached)
     IN /\ constraints' = run.constraints
        /\ attached' = run.attached
        /\ emitted' = run.emitted
  /\ layerMounted' = TRUE
  /\ layerProps' = props
  /\ lastOp' = Op0("rebuildVision")
  /\ UNCHANGED outsideLayer

\* ---------------------------------------------------- test-capture page
\* data.processed of a response: missing, or a boundary (or none) and
\* structures
ProcessedValues ==
  {Undefined} \cup
  [propertyBoundary : {Undefined} \cup {[coordinates |-> c] : c \in LayerCoords},
   structures : StructLists]

\* data.processed?.propertyBoundary?.coordinates is there
HasBoundary(processed) ==
  IF processed = Undefined THEN FALSE
  ELSE IF processed.propertyBoundary = Undefined THEN FALSE
  ELSE processed.propertyBoundary.coordinates.defined

\* showConstraints && constraintAnalysis && map
LayerShown(analysis, show, mapSet) == show /\ analysis # Undefined /\ mapSet

\* the props the page hands to ConstraintLayer; reading
\* constraintAnalysis.propertyBoundary.coordinates throws without a boundary
RenderThrows(analysis) == analysis.propertyBoundary = Undefined

PageProps(analysis) ==
  [property_boundaries |->
     List(<<[coordinates |-> analysis.propertyBoundary.coordinates]>>),
   structures |-> analysis.structures,
   observer |-> FALSE]

\* the render that follows a state change of the page, and the effect of
\* ConstraintLayer, which runs again with every render of the page
PageRender(analysis, show, mapSet) ==
  IF LayerShown(analysis, show, mapSet)
  THEN IF RenderThrows(analysis)
       THEN \* the page is torn down, the cleanup of the layer runs
            LET run == EffectCleanup(constraints, attached)
            IN /\ pageCrashed' = TRUE
               /\ layerMounted' = FALSE
               /\ layerProps' = Undefined
               /\ constraints' = run.constraints
               /\ attached' = run.attached
               /\ emitted' = run.emitted
       ELSE LET run == EffectRun(PageProps(analysis), constraints, attached)
            IN /\ pageCrashed' = FALSE
               /\ layerMounted' = TRUE
               /\ layerProps' = PageProps(analysis)
               /\ constraints' = run.constraints
               /\ attached' = run.attached
               /\ emitted' = run.emitted
  ELSE LET run == EffectCleanup(constraints, attached)
       IN /\ pageCrashed' = FALSE
          /\ layerMounted' = FALSE
          /\ layerProps' = Undefined
          /\ constraints' = run.constraints
          /\ attached' = run.attached
          /\ emitted' = run.emitted

\* what the handlers of the test-capture page never write
outsideCapture ==
  <<drawingMode, boundaryPath, cornerMarkers, isBoundaryLocked, boundaryFromAI,
    measurementsArea, isAnalyzing, queryPending, clearedSinceStart, plannerVars,
    routeVars, toolsVars>>

\* the "Show/Hide Constraints" button
ToggleConstraints ==
  /\ ~pageCrashed
  /\ showConstraints' = ~showConstraints
  /\ lastOp' = Op0("toggleConstraints")
  /\ PageRender(constraintAnalysis, ~showConstraints, map)
  /\ UNCHANGED <<map, captureAnalyzing, captureError, constraintAnalysis,
                 capturePending>>
  /\ UNCHANGED outsideCapture

\* handleAnalyze up to its first await; hasBounds is map.getBounds()
StartHandleAnalyze(hasBounds) ==
  /\ map
  /\ ~pageCrashed
  /\ capturePending < MaxCalls
  /\ IF hasBounds
     THEN /\ captureAnalyzing' = TRUE
          /\ captureError' = "null"
          /\ capturePending' = capturePending + 1
          /\ lastOp' = Op0("startHandleAnalyze")
     ELSE \* throws 'Map bounds not available': catch, finally
          /\ captureAnalyzing' = FALSE
          /\ captureError' = ErrorMessage("noBounds")
          /\ lastOp' = Op0("handleAnalyzeFailed")
          /\ UNCHANGED capturePending
  /\ PageRender(constraintAnalysis, showConstraints, map)
  /\ UNCHANGED <<map, constraintAnalysis, showConstraints>>
  /\ UNCHANGED outsideCapture

\* outcomes of handleAnalyze's awaits: a failure, or a body with processed
CaptureOutcomes ==
  {[kind |-> f, processed |-> Undefined] :
     f \in {"captureFailed", "fetchFailed", "notOk", "badBody"}}
    \cup {[kind |-> "ok", processed |-> d] : d \in ProcessedValues}

\* handleAnalyze whose failures leave the busy flag set
HandleAnalyzeResponse_KeepsBusy(outcome) ==
  /\ capturePending > 0
  /\ capturePending' = capturePending - 1
  /\ IF pageCrashed
     THEN /\ lastOp' = Op0("handleAnalyzeDropped")
          /\ UNCHANGED <<captureAnalyzing, captureError, constraintAnalysis,
                         showConstraints, pageCrashed, layerVars>>
     ELSE /\ IF outcome.kind = "ok"
             THEN /\ constraintAnalysis' = outcome.processed
                  /\ showConstraints' = TRUE
                  /\ lastOp' = IF HasBoundary(outcome.processed)
                               THEN Op0("handleAnalyzeOk")
                               ELSE Op0("handleAnalyzeNoBoundary")
                  /\ captureAnalyzing' = FALSE
                  /\ UNCHANGED captureError
             ELSE /\ captureError' = ErrorMessage(outcome.kind)
                  /\ lastOp' = Op0("handleAnalyzeFailed")
                  /\ UNCHANGED <<constraintAnalysis, showConstraints,
                                 captureAnalyzing>>
          /\ PageRender(constraintAnalysis', showConstraints', map)
  /\ UNCHANGED map
  /\ UNCHANGED outsideCapture

\* handleAnalyze from its awaits on
HandleAnalyzeResponse(outcome) ==
  /\ capturePending > 0
  /\ capturePending' = capturePending - 1
  /\ IF pageCrashed
     THEN \* the page is gone: setting its state does nothing
          /\ lastOp' = Op0("handleAnalyzeDropped")
          /\ UNCHANGED <<captureAnalyzing, captureError, constraintAnalysis,
                         showConstraints, pageCrashed, layerVars>>
     ELSE /\ IF outcome.kind = "ok"
             THEN /\ constraintAnalysis' = outcome.processed
                  /\ showConstraints' = TRUE
                  /\ lastOp' = IF HasBoundary(outcome.processed)
                               THEN Op0("handleAnalyzeOk")
                               ELSE Op0("handleAnalyzeNoBoundary")
                  /\ UNCHANGED captureError
             ELSE /\ captureError' = ErrorMessage(outcome.kind)
                  /\ lastOp' = Op0("handleAnalyzeFailed")
                  /\ UNCHANGED <<constraintAnalysis, showConstraints>>
          /\ captureAnalyzing' = FALSE
          /\ PageRender(constraintAnalysis', showConstraints', map)
  /\ UNCHANGED map
  /\ UNCHANGED outsideCapture

\* ---------------------------------------------------- the vision routes
\* the JavaScript value []
EmptyArray == [array |-> <<>>]

\* coordinates of a structure in a reply: missing, 2 points or 4 points
RouteCoords == {NoList, List(SubSeq(Loop(1), 1, 2)), List(SubSeq(Loop(1), 1, 4))}

RouteStructLists ==
  UNION {[1..n -> [type : {"garage"}, coordinates : RouteCoords]] :
           n \in 0..MaxRouteStructs}

\* the values the two spellings of a key carry, told apart by their content
SnakeBoundary == [coordinates |-> List(SubSeq(Loop(1), 1, 3))]

CamelBoundary == [coordinates |-> List(SubSeq(Loop(1), 1, 4))]

SnakeArea ==
  [coordinates |-> List(SubSeq(Loop(1), 1, 4)), suitability |-> "good", notes |-> <<>>]

CamelArea ==
  [coordinates |-> List(SubSeq(Loop(1), 1, 3)), suitability |-> "poor", notes |-> <<>>]

Setbacks == [front |-> Present(20), back |-> Present(15),
             left |-> Present(5), right |-> Present(5)]

\* what JSON.parse can return: an object with any of the keys the routes
\* read, or a value that is no object
JsonObjects ==
  [json : {"object"},
   property_boundary : {Absent, Present(SnakeBoundary)},
   propertyBoundary : {Absent, Present(CamelBoundary)},
   structures : {NoList} \cup {List(l) : l \in RouteStructLists},
   setbacks : {Absent, Present(Setbacks)},
   buildable_areas : {NoList, List(<<SnakeArea>>)},
   buildableAreas : {NoList, List(<<CamelArea>>)}]

JsonScalars == {[json |-> "string"], [json |-> "number"], [json |-> "null"]}

JsonValues == JsonObjects \cup JsonScalars

\* the values that are also tried with text around them
WrappedValues ==
  {[json |-> "string"]} \cup
  {v \in JsonObjects : /\ v.structures = List(<<>>)
                       /\ ~v.setbacks.defined
                       /\ ~v.buildable_areas.defined
                       /\ ~v.buildableAreas.defined}

\* the pieces of a reply: "```json\n", "\n```", prose without braces, a "}"
\* of its own, and the text of a JSON value
Tok(kind, value) == [kind |-> kind, value |-> value]

FenceOpen == Tok("fenceOpen", Undefined)

FenceClose == Tok("fenceClose", Undefined)

Prose == Tok("prose", Undefined)

CloseBrace == Tok("closeBrace", Undefined)

Json(v) == Tok("json", v)

\* response.choices[0].message.content: empty, one JSON text, or up to
\* MaxTokens pieces around the text of a wrapped value
Contents ==
  {<<Json(v)>> : v \in JsonValues} \cup
  UNION {[1..n -> {FenceOpen, FenceClose, Prose, CloseBrace, Json(v)}] :
           n \in 0..MaxTokens, v \in WrappedValues}

\* JSON.parse(text): the value of a text that is one JSON text, else it throws
JSONParse(text) ==
  IF Len(text) = 1 /\ text[1].kind = "json"
  THEN [ok |-> TRUE, value |-> text[1].value]
  ELSE [ok |-> FALSE, value |-> Undefined]

HasOpenBrace(tok) == tok.kind = "json" /\ tok.value.json = "object"

HasCloseBrace(tok) ==
  \/ tok.kind = "closeBrace"
  \/ tok.kind = "json" /\ tok.value.json = "object"

\* content.match(/\{[\s\S]*\}/): from the first "{" to the last "}"
Match(content) ==
  LET opens == {i \in 1..Len(content) : HasOpenBrace(content[i])}
      closes == {i \in 1..Len(content) : HasCloseBrace(content[i])}
  IN IF opens = {} THEN NoList
     ELSE LET first == CHOOSE i \in opens : \A j \in opens : i <= j
              after == {i \in closes : i >= first}
              last == CHOOSE i \in after : \A j \in after : i >= j
          IN List(SubSeq(content, first, last))

\* content.replace(/^```json\n|\n```$/g, '')
StripFence(content) ==
  LET from == IF content # <<>> /\ content[1].kind = "fenceOpen" THEN 2 ELSE 1
      rest == SubSeq(content, from, Len(content))
  IN IF rest # <<>> /\ rest[Len(rest)].kind = "fenceClose"
     THEN SubSeq(rest, 1, Len(rest) - 1)
     ELSE rest

\* NextResponse.json(body), status 200
Success(body, normalized) ==
  [ok |-> TRUE, status |-> 200, error |-> "", body |-> body,
   normalized |-> normalized]

\* NextResponse.json({ error }, { status })
Failure(status, message) ==
  [ok |-> FALSE, status |-> status, error |-> message, body |-> Undefined,
   normalized |-> Undefined]

\* the outcome of a block that can throw
Returned(response) == [threw |-> FALSE, message |-> "", response |-> response]

Thrown(message) == [threw |-> TRUE, message |-> message, response |-> Undefined]

\* parsed[key] for a key with an object value; undefined on a string or number
Field(parsed, key) == IF parsed.json = "object" THEN parsed[key] ELSE Absent

\* parsed[key] for a key with an array value
ListField(parsed, key) == IF parsed.json = "object" THEN parsed[key] ELSE NoList

\* const processed = { ... } of the first handler
Normalize(parsed) ==
  [propertyBoundary |->
     IF Field(parsed, "property_boundary").defined
     THEN Field(parsed, "property_boundary")
     ELSE Field(parsed, "propertyBoundary"),
   structures |->
     IF ListField(parsed, "structures").defined
     THEN ListField(parsed, "structures").value
     ELSE <<>>,
   setbacks |->
     IF Field(parsed, "setbacks").defined
     THEN Field(parsed, "setbacks").value
     ELSE EmptyArray,
   buildableAreas |->
     IF ListField(parsed, "buildable_areas").defined
     THEN ListField(parsed, "buildable_areas").value
     ELSE IF ListField(parsed, "buildableAreas").defined
          THEN ListField(parsed, "buildableAreas").value
          ELSE <<>>]

\* x.coordinates[0].lat can be read
FirstPointReadable(x) == x.coordinates.defined /\ Len(x.coordinates.value) >= 1

\* processed.setbacks.front and its like; undefined on []
Side(setbacks, side) == IF setbacks = EmptyArray THEN Absent ELSE setbacks[side]

\* const transformed = { ... } of the first handler
Transformed(processed) ==
  [structures |->
     [i \in 1..Len(processed.structures) |->
        [type |-> processed.structures[i].type,
         condition |-> "good",
         location |-> processed.structures[i].coordinates.value[1]]],
   setbacks |->
     [front |-> Side(processed.setbacks, "front"),
      back |-> Side(processed.setbacks, "back"),
      left |-> Side(processed.setbacks, "left"),
      right |-> Side(processed.setbacks, "right")],
   buildableAreas |->
     [i \in 1..Len(processed.buildableAreas) |->
        [location |-> processed.buildableAreas[i].coordinates.value[1],
         suitability |-> processed.buildableAreas[i].suitability,
         challenges |-> processed.buildableAreas[i].notes]]]

\* the first handler from "const processed" to its return, for one parsed value
Process(parsed, type, content) ==
  IF parsed.json = "null" THEN Thrown("TypeError")
  ELSE LET processed == Normalize(parsed)
       IN IF type = "constraints"
          THEN IF \/ \E i \in 1..Len(processed.structures) :
                        ~FirstPointReadable(processed.structures[i])
                  \/ \E i \in 1..Len(processed.buildableAreas) :
                        ~FirstPointReadable(processed.buildableAreas[i])
               THEN Thrown("TypeError")
               ELSE Returned(Success([raw |-> content,
                                      processed |-> Transformed(processed)],
                                     processed))
          ELSE Returned(Success([raw |-> content, processed |-> parsed],
                                processed))

\* POST of /api/vision/analyze
VisionAnalyze(req) ==
  IF ~req.image THEN Failure(400, "Image URL or data URL is required")
  ELSE IF req.upstream = "throws" THEN Failure(500, "upstream error")
  ELSE IF req.content = <<>> THEN Failure(500, "No analysis generated")
  ELSE LET direct == JSONParse(req.content)
           first == IF direct.ok THEN Process(direct.value, req.type, req.content)
                    ELSE Thrown("SyntaxError")
       IN IF ~first.threw THEN first.response
          ELSE \* catch (parseError)
               LET jsonMatch == Match(req.content)
               IN IF ~jsonMatch.defined
                  THEN Failure(500, "No JSON found in response")
                  ELSE LET again == JSONParse(jsonMatch.value)
                           second == IF again.ok
                                     THEN Process(again.value, req.type, req.content)
                                     ELSE Thrown("SyntaxError")
                       IN IF second.threw THEN Failure(500, second.message)
                          ELSE second.response

\* transformedData of the second handler can be built from rawData
TransformReadable(rawData) ==
  /\ rawData.json = "object"
  /\ rawData.propertyBoundary.defined
  /\ rawData.structures.defined

TransformedData(rawData) ==
  [property_boundaries |->
     <<[boundary_id |-> 1,
        coordinates |-> rawData.propertyBoundary.value.coordinates]>>,
   structures |->
     [i \in 1..Len(rawData.structures.value) |->
        [structure_id |-> i,
         type |-> rawData.structures.value[i].type,
         coordinates |-> rawData.structures.value[i].coordinates]]]

\* the second POST of route.ts
VisionAnalyzeProperty(req) ==
  IF ~req.image THEN Failure(400, "Image URL is required")
  ELSE IF req.upstream = "throws" THEN Failure(500, "upstream error")
  ELSE IF req.content = <<>> THEN Failure(500, "No analysis generated")
  ELSE LET cleanContent == IF req.type = "property" THEN req.content
                           ELSE StripFence(req.content)
           rawData == JSONParse(cleanContent)
       IN IF ~rawData.ok THEN Failure(500, "Invalid analysis format")
          ELSE IF req.type = "property" THEN Success(rawData.value, Undefined)
          ELSE IF ~TransformReadable(rawData.value)
               THEN Failure(500, "Invalid analysis format")
               ELSE Success([raw |-> req.content,
                             processed |-> TransformedData(rawData.value)],
                            Undefined)

\* POST of /api/analyze-constraints
AnalyzeConstraints(req) ==
  IF ~req.image THEN Failure(400, "Image is required")
  ELSE IF req.upstream = "throws" \/ req.content = <<>>
       THEN Failure(500, "Failed to analyze constraints")
  ELSE LET direct == JSONParse(req.content)
       IN IF direct.ok THEN Success([parsed |-> direct.value], Undefined)
          ELSE LET jsonMatch == Match(req.content)
               IN IF ~jsonMatch.defined
                  THEN Failure(500, "Failed to analyze constraints")
                  ELSE LET again == JSONParse(jsonMatch.value)
                       IN IF again.ok
                          THEN Success([parsed |-> again.value], Undefined)
                          ELSE Failure(500, "Failed to analyze constraints")

Handlers == {"visionAnalyze", "visionAnalyzeProperty", "analyzeConstraints"}

RequestTypes == {"general", "constraints", "property"}

\* a request with the reply the model gives to it: every reply for a request
\* that carries an image and reaches the model, no reply otherwise
Requests ==
  [handler : Handlers, type : RequestTypes, image : {TRUE},
   upstream : {"ok"}, content : Contents]
  \cup
  [handler : Handlers, type : RequestTypes, image : BOOLEAN,
   upstream : {"ok", "throws"}, content : {<<>>}]

Handle(req) ==
  CASE req.handler = "visionAnalyze" -> VisionAnalyze(req)
    [] req.handler = "visionAnalyzeProperty" -> VisionAnalyzeProperty(req)
    [] req.handler = "analyzeConstraints" -> AnalyzeConstraints(req)

\* what the route handlers never write
outsideRoute == <<mapVars, plannerVars, captureVars, layerVars, toolsVars>>

\* a request reaches a route
ReceiveRequest(req) ==
  /\ routeRequest = Undefined
  /\ routeRequest' = req
  /\ routeResponse' = Undefined
  /\ lastOp' = Op0("receiveRequest")
  /\ UNCHANGED outsideRoute

\* the POST handler of the route runs to its return
POST ==
  /\ routeRequest # Undefined
  /\ routeResponse = Undefined
  /\ routeResponse' = Handle(routeRequest)
  /\ lastOp' = Op0("POST")
  /\ UNCHANGED <<routeRequest, outsideRoute>>

\* the response is sent and the request is over
SendResponse ==
  /\ routeResponse # Undefined
  /\ routeRequest' = Undefined
  /\ routeResponse' = Undefined
  /\ lastOp' = Op0("sendResponse")
  /\ UNCHANGED outsideRoute

\* -------------------------------------------------------- DrawingTools
\* what the effect of DrawingTools never writes
outsideTools == <<mapVars, plannerVars, captureVars, layerVars, routeVars>>

\* the props DrawingTools can be rendered with
ToolsProps ==
  [map : 0..MaxMaps, drawingMode : {"polygon", "null"},
   callback : 1..MaxCallbacks]

\* cleanup that forgets the manager and leaves it on the map
ToolsCleanup_NoDetach(ref, ms) == [ref |-> 0, managers |-> ms]

\* the cleanup the effect returns
ToolsCleanup(ref, ms) ==
  IF ref # 0
  THEN [ref |-> 0, managers |-> {m \in ms : m.id # ref}]
  ELSE [ref |-> ref, managers |-> ms]

\* the body of the effect, with the id a new manager gets
ToolsEffect(props, ref, ms, id) ==
  IF props.map = 0
  THEN [ref |-> ref, managers |-> ms, hasCleanup |-> FALSE,
        isNew |-> 0]
  ELSE LET isNew == ref = 0
           ref1 == IF isNew THEN id ELSE ref
           ms1 == IF isNew
                  THEN ms \cup {[id |-> id, map |-> props.map,
                                 drawingMode |-> "null",
                                 listener |-> props.callback]}
                  ELSE ms
       IN [ref |-> ref1,
           managers |-> {IF m.id = ref1
                         THEN [m EXCEPT !.drawingMode = props.drawingMode]
                         ELSE m : m \in ms1},
           hasCleanup |-> TRUE,
           isNew |-> IF isNew THEN 1 ELSE 0]

\* DrawingTools is rendered with props: mount, or a change of its props.
\* The cleanup of the previous run, if it returned one, runs before the effect.
RenderTools(props) ==
  /\ managersCreated < MaxManagers
  /\ toolsMounted => props # [map |-> toolsMap, drawingMode |-> toolsMode,
                              callback |-> toolsCallback]
  /\ LET cleaned == IF hasCleanup THEN ToolsCleanup(drawingManagerRef, managers)
                    ELSE [ref |-> drawingManagerRef, managers |-> managers]
         run == ToolsEffect(props, cleaned.ref, cleaned.managers,
                            managersCreated + 1)
     IN /\ drawingManagerRef' = run.ref
        /\ managers' = run.managers
        /\ hasCleanup' = run.hasCleanup
        /\ managersCreated' = managersCreated + run.isNew
  /\ toolsMounted' = TRUE
  /\ toolsMap' = props.map
  /\ toolsMode' = props.drawingMode
  /\ toolsCallback' = props.callback
  /\ lastOp' = Op("renderTools", <<>>, drawingManagerRef, Undefined)
  /\ UNCHANGED outsideTools

\* DrawingTools is removed; its ref goes with it
UnmountTools ==
  /\ toolsMounted
  /\ LET cleaned == IF hasCleanup THEN ToolsCleanup(drawingManagerRef, managers)
                    ELSE [ref |-> drawingManagerRef, managers |-> managers]
     IN managers' = cleaned.managers
  /\ drawingManagerRef' = 0
  /\ hasCleanup' = FALSE
  /\ toolsMounted' = FALSE
  /\ lastOp' = Op("unmountTools", <<>>, drawingManagerRef, Undefined)
  /\ UNCHANGED <<toolsMap, toolsMode, toolsCallback, managersCreated>>
  /\ UNCHANGED outsideTools

\* ------------------------------------------------------- specifications
\* the Boundary Edit Session of PropertyMap
Next ==
  \/ OnLoad
  \/ StartDrawing
  \/ \E polygon \in PointLists(3, MaxDrawn) : PolygonComplete(polygon)
  \/ \E index \in 1..Len(cornerMarkers), position \in Points :
       handleMarkerDrag(index, position)
  \/ \E newCenter2 \in HalfPoints : PolygonDragEnd(newCenter2)
  \/ Lock
  \/ Unlock
  \/ ClearDrawing
  \/ \E hasBounds \in BOOLEAN : StartOpenAIQuery(hasBounds)
  \/ \E outcome \in QueryOutcomes : OpenAIResponse(outcome)

Spec == Init /\ [][Next]_vars

\* the requests of the planner page: PropertyPlanner with its PropertyMap
NextPlanner ==
  \/ OnLoad
  \/ Lock
  \/ Unlock
  \/ ClearDrawing
  \/ \E hasBounds \in BOOLEAN : StartOpenAIQuery(hasBounds)
  \/ \E outcome \in QueryOutcomes : OpenAIResponse(outcome)
  \/ \E hasBounds \in BOOLEAN : StartAnalyze(hasBounds)
  \/ \E hasBounds \in BOOLEAN : TryAgain(hasBounds)
  \/ \E outcome \in AnalyzeOutcomes : AnalyzeResponse(outcome)

SpecPlanner == Init /\ [][NextPlanner]_vars

\* ConstraintLayer under an arbitrary parent
NextLayer ==
  \/ \E props \in LayerProps : Rebuild(props)
  \/ Unmount

SpecLayer == Init /\ [][NextLayer]_vars

\* the visionAnalysis variant of ConstraintLayer under an arbitrary parent
NextVision == \E props \in VisionProps : RebuildVision(props)

SpecVision == Init /\ [][NextVision]_vars

\* DrawingTools under an arbitrary parent
NextTools ==
  \/ \E props \in ToolsProps : RenderTools(props)
  \/ UnmountTools

SpecTools == Init /\ [][NextTools]_vars

\* the test-capture page with its ConstraintLayer
NextCapture ==
  \/ OnLoad
  \/ ToggleConstraints
  \/ \E hasBounds \in BOOLEAN : StartHandleAnalyze(hasBounds)
  \/ \E outcome \in CaptureOutcomes : HandleAnalyzeResponse(outcome)

SpecCapture == Init /\ [][NextCapture]_vars

\* the requests of PropertyMap, PropertyPlanner and the test-capture page
\* with one boundary and one constraint set for the bodies that succeed
BusyQueryOutcomes ==
  {o \in QueryOutcomes :
     o.kind \in Failures \/ o.coordinates = <<Pt(0), Pt(1), Pt(2)>>}

BusyCaptureOutcomes ==
  {o \in CaptureOutcomes :
     \/ o.kind # "ok"
     \/ o.processed = Undefined
     \/ o.processed = [propertyBoundary |-> Undefined, structures |-> <<>>]
     \/ o.processed = [propertyBoundary |->
                         [coordinates |-> List(SubSeq(Loop(1), 1, 4))],
                       structures |-> <<>>]}

NextBusy ==
  \/ OnLoad
  \/ Unlock
  \/ \E hasBounds \in BOOLEAN : StartOpenAIQuery(hasBounds)
  \/ \E outcome \in BusyQueryOutcomes : OpenAIResponse(outcome)
  \/ \E hasBounds \in BOOLEAN : StartAnalyze(hasBounds)
  \/ \E hasBounds \in BOOLEAN : TryAgain(hasBounds)
  \/ \E outcome \in AnalyzeOutcomes : AnalyzeResponse(outcome)
  \/ \E hasBounds \in BOOLEAN : StartHandleAnalyze(hasBounds)
  \/ \E outcome \in BusyCaptureOutcomes : HandleAnalyzeResponse(outcome)

\* every await of a handler settles: the promise of the capture, of fetch
\* and of response.json() resolves or rejects
SpecBusy ==
  /\ Init
  /\ [][NextBusy]_vars
  /\ WF_vars(\E outcome \in BusyQueryOutcomes : OpenAIResponse(outcome))
  /\ WF_vars(\E outcome \in AnalyzeOutcomes : AnalyzeResponse(outcome))
  /\ WF_vars(\E outcome \in BusyCaptureOutcomes : HandleAnalyzeResponse(outcome))

\* the three vision routes, one request at a time
NextRoute ==
  \/ \E req \in Requests : ReceiveRequest(req)
  \/ POST
  \/ SendResponse

SpecRoute == Init /\ [][NextRoute]_vars

\* ================================================================ claims

\* C1: in every reachable state of the Boundary Edit Session the number of
\* corners is 0 or exactly 4.
C1_CornersZeroOrFour == Len(cornerMarkers) \in {0, 4}

\* C2: whenever the path is non-empty it is the closed ring of the corners:
\* one copy of the first corner appended when first and last corner differ,
\* nothing appended when the corners are already closed.
C2_PathIsClosedCorners ==
  LET corners == cornerMarkers
      closed == IF corners # <<>> /\ corners[1] # corners[Len(corners)]
                THEN Append(corners, corners[1])
                ELSE corners
  IN boundaryPath # <<>> => boundaryPath = closed

\* C3: completeDrawing(points) with at least 4 points, applied while the path
\* is empty, leaves the session unlocked with source manual, the first 4
\* points as corners and those 4 points followed by the first as path.
C3_CompleteDrawingFromEmpty ==
  [][(/\ boundaryPath = <<>>
      /\ lastOp'.name = "completeDrawing"
      /\ Len(lastOp'.pts) >= 4)
     => (/\ ~isBoundaryLocked'
         /\ ~boundaryFromAI'
         /\ cornerMarkers' = SubSeq(lastOp'.pts, 1, 4)
         /\ boundaryPath' = SubSeq(lastOp'.pts, 1, 4) \o <<lastOp'.pts[1]>>)]_vars

\* five points were drawn, four of them became the corners of an unlocked
\* manual boundary
C3_Witness ==
  /\ lastOp.name = "completeDrawing"
  /\ Len(lastOp.pts) = 5
  /\ lastOp.pts[5] # lastOp.pts[1]
  /\ Len(cornerMarkers) = 4
  /\ Len(boundaryPath) = 5
  /\ ~isBoundaryLocked
  /\ ~boundaryFromAI

\* C4: a successful aiDetect(ring) leaves the session locked with source ai,
\* corners and path taken from the ring and the area of the ring stored.
C4_AiDetectLocks ==
  lastOp.name = "aiDetect" =>
    /\ isBoundaryLocked
    /\ boundaryFromAI
    /\ cornerMarkers = lastOp.pts
    /\ boundaryPath = Append(lastOp.pts, At(lastOp.pts, 1))
    /\ measurementsArea = ToSqFt(computeArea(lastOp.pts))

\* a triangle was detected and its area measured
C4_Witness ==
  /\ lastOp.name = "aiDetect"
  /\ boundaryFromAI
  /\ Len(cornerMarkers) = 3
  /\ measurementsArea > 0
  /\ isBoundaryLocked

\* C5: while the session is locked no corner drag and no whole-boundary drag
\* changes corners or path, and only the explicit unlock leaves Locked.
C5_LockedIsReadOnly ==
  [][isBoundaryLocked =>
       /\ lastOp'.name \in {"dragCorner", "dragWholeBoundary"}
            => UNCHANGED <<cornerMarkers, boundaryPath>>
       /\ ~isBoundaryLocked' => lastOp'.name = "unlock"]_vars

\* C6: after clear the path is empty, the corners are empty and the source is
\* manual.
C6_ClearResets ==
  lastOp.name = "clear" =>
    /\ boundaryPath = <<>>
    /\ cornerMarkers = <<>>
    /\ ~boundaryFromAI

\* the boundary was cleared while a detection request was outstanding
C6_Witness ==
  /\ lastOp.name = "clear"
  /\ boundaryPath = <<>>
  /\ clearedSinceStart

\* C7: at most one vision request (boundary detection or property analysis)
\* is in flight at any time.
C7_OneRequestInFlight ==
  (IF queryPending THEN 1 ELSE 0) + analyzePending <= 1

\* C8: the response of a boundary-detection request during which the session
\* was cleared does not set path, corners, locked, source or area.
C8_ClearedResponseDiscarded ==
  [][(queryPending /\ clearedSinceStart /\ ~queryPending')
       => UNCHANGED sessionVars]_vars

\* C9: a request that fails (no viewport, a response that is not 2xx, a body
\* that cannot be read, or a response without a boundary) leaves the path,
\* corners, locked flag, source and area of the session and the constraint
\* data the layer displays as they were.
C9_FailedRequestLeavesState ==
  [][lastOp'.name \in {"queryFailed", "handleAnalyzeFailed", "handleAnalyzeNoBoundary"}
       => UNCHANGED <<sessionVars, constraintAnalysis, constraints>>]_vars

\* C10: after a rebuild the aggregate handed to the observer is
\* max(0, propertyArea - sum of the areas of the structure constraints the
\* rebuild created), and it is never negative.
C10_AggregateIsClampedDifference ==
  (lastOp.name = "rebuild" /\ layerProps.observer) =>
    LET difference == PropertyArea(constraints) - SumAreas(constraints, 1)
    IN /\ emitted = (IF difference > 0 THEN difference ELSE 0)
       /\ emitted >= 0

\* a rebuild whose structures cover more than the property does
C10_Witness ==
  /\ lastOp.name = "rebuild"
  /\ layerProps.observer
  /\ PropertyArea(constraints) > 0
  /\ SumAreas(constraints, 1) > PropertyArea(constraints)
  /\ emitted = 0

\* C11: a rebuild on input without a valid property boundary reports no
\* aggregate to the observer (never 0), whatever structures are present.
C11_NoBoundaryNoAggregate ==
  (/\ lastOp.name = "rebuild"
   /\ layerProps.observer
   /\ \A i \in 1..Len(constraints) : constraints[i].type # "property")
    => emitted = NoValue

\* C12: a rebuild that follows a rebuild with the same input displays the
\* same constraints (kinds, rings, areas), leaves no polygon of the first run
\* attached and reports the same aggregate.
C12_RebuildIdempotent ==
  [][(lastOp.name = "rebuild" /\ lastOp'.name = "rebuild" /\ layerProps' = layerProps)
       => LET Shown(cs) == [i \in 1..Len(cs) |->
                              [type |-> cs[i].type,
                               ring |-> cs[i].polygon.paths,
                               area |-> cs[i].area]]
          IN /\ Shown(constraints') = Shown(constraints)
             /\ Cardinality(attached') = Len(constraints')
             /\ attached' = PolygonIds(constraints')
             /\ emitted' = emitted]_vars

\* the same property and two structures were rebuilt twice in a row
C12_Witness ==
  /\ lastOp.name = "rebuild"
  /\ lastOp.idx = 1
  /\ Len(constraints) = 3
  /\ Cardinality(attached) = 3
  /\ emitted >= 0

\* C13: the polygons attached to the map are exactly the polygons of the
\* current constraint list, and none is attached once the layer is removed.
C13_AttachedAreRecorded ==
  /\ attached = PolygonIds(constraints)
  /\ Cardinality(attached) = Len(constraints)
  /\ ~layerMounted => attached = {}

\* the layer was removed while it showed polygons
C13_Witness ==
  /\ lastOp.name = "unmount"
  /\ lastOp.idx >= 2
  /\ attached = {}
  /\ constraints = <<>>

\* C14: a rebuild skips every ring that is missing or shorter than 3 points,
\* creates a constraint for every other ring of the input, in order, and
\* still reports the aggregate of those to the observer.
C14_BadRingSkipped ==
  lastOp.name = "rebuild" =>
    LET Valid(c) == c.defined /\ Len(c.value) >= 3
        boundaries == layerProps.property_boundaries
        property ==
          IF boundaries.defined /\ boundaries.value # <<>>
          THEN IF Valid(boundaries.value[1].coordinates)
               THEN <<boundaries.value[1].coordinates.value>>
               ELSE <<>>
          ELSE <<>>
        kept == SelectSeq(layerProps.structures,
                          LAMBDA st : Valid(st.coordinates))
        rings == property \o [i \in 1..Len(kept) |-> kept[i].coordinates.value]
        propertyArea == IF property = <<>> THEN 0
                        ELSE calculatePolygonArea(List(property[1]))
        structureArea == SumAreas(constraints, 1)
    IN /\ Len(constraints) = Len(rings)
       /\ \A i \in 1..Len(rings) :
            /\ constraints[i].coordinates = rings[i]
            /\ constraints[i].area = calculatePolygonArea(List(rings[i]))
            /\ constraints[i].type =
                 (IF i <= Len(property) THEN "property" ELSE "structure")
            /\ constraints[i].polygon.id \in attached
       /\ layerProps.observer =>
            emitted = Max(0, propertyArea - structureArea)

\* a short ring and a missing ring were skipped, the property and the valid
\* structure were created and the aggregate was reported
C14_Witness ==
  /\ lastOp.name = "rebuild"
  /\ layerProps.observer
  /\ Len(layerProps.structures) = 2
  /\ \E i \in 1..2 : /\ layerProps.structures[i].coordinates.defined
                     /\ Len(layerProps.structures[i].coordinates.value) = 2
  /\ Len(constraints) = 2
  /\ constraints[1].type = "property"
  /\ constraints[2].type = "structure"
  /\ emitted >= 0

\* C15: wherever the code closes a ring of at least 3 points, the result is
\* the ring with one copy of its first point appended when first and last
\* point differ, and the ring itself when it is already closed; here for the
\* boundary path written by a corner drag and by a detected boundary.
C15_ClosingLeavesClosedRing ==
  (lastOp.name \in {"dragCorner", "aiDetect"} /\ Len(cornerMarkers) >= 3) =>
    LET ring == cornerMarkers
    IN IF ring[1] # ring[Len(ring)]
       THEN boundaryPath = Append(ring, ring[1])
       ELSE boundaryPath = ring

\* C16: the normalizer of /api/vision/analyze gives each field the value of
\* its snake_case key if present, else of its camelCase key if present, else
\* an empty default: an empty ring for the property boundary, an empty list
\* for structures and buildable areas, zero setbacks.
C16_NormalizerDefaults ==
  (/\ lastOp.name = "POST"
   /\ routeRequest.handler = "visionAnalyze"
   /\ routeResponse.ok
   /\ Len(routeRequest.content) = 1
   /\ routeRequest.content[1].kind = "json"
   /\ routeRequest.content[1].value.json = "object")
    => LET parsed == routeRequest.content[1].value
           processed == routeResponse.normalized
       IN /\ processed.propertyBoundary =
               (IF parsed.property_boundary.defined THEN parsed.property_boundary
                ELSE IF parsed.propertyBoundary.defined THEN parsed.propertyBoundary
                ELSE Present([coordinates |-> List(<<>>)]))
          /\ processed.structures =
               (IF parsed.structures.defined THEN parsed.structures.value ELSE <<>>)
          /\ processed.buildableAreas =
               (IF parsed.buildable_areas.defined THEN parsed.buildable_areas.value
                ELSE IF parsed.buildableAreas.defined THEN parsed.buildableAreas.value
                ELSE <<>>)
          /\ processed.setbacks =
               (IF parsed.setbacks.defined THEN parsed.setbacks.value
                ELSE [front |-> Present(0), back |-> Present(0),
                      left |-> Present(0), right |-> Present(0)])

\* C17: content that parses to a JSON value that is no object is answered
\* with an error response, whatever the request type.
C17_NonObjectIsMalformed ==
  (/\ lastOp.name = "POST"
   /\ routeRequest.handler \in {"visionAnalyze", "visionAnalyzeProperty"}
   /\ Len(routeRequest.content) = 1
   /\ routeRequest.content[1].kind = "json"
   /\ routeRequest.content[1].value.json # "object")
    => ~routeResponse.ok

\* C18: an object payload that has its property boundary and its structures
\* list is answered with a success for type 'general' and 'constraints', also
\* when a structure lacks coordinates or has fewer than 3 points.
C18_MissingCoordinatesNotFatal ==
  (/\ lastOp.name = "POST"
   /\ routeRequest.handler \in {"visionAnalyze", "visionAnalyzeProperty"}
   /\ routeRequest.type \in {"general", "constraints"}
   /\ Len(routeRequest.content) = 1
   /\ routeRequest.content[1].kind = "json"
   /\ routeRequest.content[1].value.json = "object"
   /\ routeRequest.content[1].value.propertyBoundary.defined
   /\ routeRequest.content[1].value.structures.defined)
    => routeResponse.ok

\* C19: a reply whose JSON object stands between a leading ```json fence and a
\* trailing ``` fence gets the response the same JSON gets without the fence,
\* for every request type.
C19_FenceIsTransparent ==
  (/\ lastOp.name = "POST"
   /\ Len(routeRequest.content) = 3
   /\ routeRequest.content[1].kind = "fenceOpen"
   /\ routeRequest.content[2].kind = "json"
   /\ routeRequest.content[2].value.json = "object"
   /\ routeRequest.content[3].kind = "fenceClose")
    => LET plain == Handle([routeRequest EXCEPT
                              !.content = <<routeRequest.content[2]>>])
           Result(response) ==
             IF routeRequest.handler = "analyzeConstraints"
             THEN response.body.parsed
             ELSE IF routeRequest.handler = "visionAnalyzeProperty"
                     /\ routeRequest.type = "property"
                  THEN response.body
                  ELSE response.body.processed
       IN /\ routeResponse.ok = plain.ok
          /\ plain.ok => Result(routeResponse) = Result(plain)

\* C20: content that holds the text of a JSON object, with prose, fences or
\* further braces around it, is answered as that object alone is answered.
C20_EmbeddedObjectIsExtracted ==
  (/\ lastOp.name = "POST"
   /\ \E i \in 1..Len(routeRequest.content) : HasOpenBrace(routeRequest.content[i]))
    => LET first == CHOOSE i \in 1..Len(routeRequest.content) :
                      /\ HasOpenBrace(routeRequest.content[i])
                      /\ \A j \in 1..(i - 1) : ~HasOpenBrace(routeRequest.content[j])
           plain == Handle([routeRequest EXCEPT
                              !.content = <<routeRequest.content[first]>>])
           Result(response) ==
             IF routeRequest.handler = "analyzeConstraints"
             THEN response.body.parsed
             ELSE IF routeRequest.handler = "visionAnalyzeProperty"
                     /\ routeRequest.type = "property"
                  THEN response.body
                  ELSE response.body.processed
       IN plain.ok => /\ routeResponse.ok
                      /\ Result(routeResponse) = Result(plain)

\* C24: a corner drag in the Unlocked state replaces exactly the dragged
\* corner, keeps every other corner, the locked flag and the source, rebuilds
\* the path from the new corners, and measures the area again if and only if
\* the source is 'ai'.
C24_DragCornerFrame ==
  [][(lastOp'.name = "dragCorner" /\ ~isBoundaryLocked)
       => /\ Len(cornerMarkers') = Len(cornerMarkers)
          /\ cornerMarkers'[lastOp'.idx] = lastOp'.pos
          /\ \A i \in 1..Len(cornerMarkers) :
               i # lastOp'.idx => cornerMarkers'[i] = cornerMarkers[i]
          /\ UNCHANGED <<isBoundaryLocked, boundaryFromAI>>
          /\ cornerMarkers'[1] # cornerMarkers'[Len(cornerMarkers')]
               => boundaryPath' = Append(cornerMarkers', cornerMarkers'[1])
          /\ boundaryFromAI => measurementsArea' = ToSqFt(computeArea(cornerMarkers'))
          /\ ~boundaryFromAI => measurementsArea' = measurementsArea]_vars

\* a corner of an unlocked AI boundary was moved and the area measured again
C24_Witness ==
  /\ lastOp.name = "dragCorner"
  /\ ~isBoundaryLocked
  /\ boundaryFromAI
  /\ Len(cornerMarkers) = 3
  /\ cornerMarkers[lastOp.idx] = lastOp.pos
  /\ cornerMarkers[1] # cornerMarkers[3]
  /\ measurementsArea > 0

C28_LockedHasBoundary ==
  isBoundaryLocked =>
    /\ Len(cornerMarkers) >= 3
    /\ Len(boundaryPath) = Len(cornerMarkers) + 1
    /\ boundaryPath[Len(boundaryPath)] = boundaryPath[1]

\* C29: whenever the boundary polygon is displayed, so that its drag handler
\* can read corners 0 and 2, there are at least 3 corners.
C29_CentreReadsExistingCorners ==
  Len(boundaryPath) > 2 => Len(cornerMarkers) >= 3

\* C21: when the service answers with a status that is not 2xx and the body
\* { error: msg }, the error message the client shows is exactly msg.
C21_ServiceErrorShownVerbatim ==
  (lastOp.name = "analyzeFailed" /\ lastOp.pos.kind = "notOk")
    => analysisError = lastOp.pos.error

\* C26: a general analysis request, from its start to its success or failure,
\* leaves the session's path, corners, locked flag and source and the
\* constraints of the Constraint Layer as they were.
C26_AnalysisLeavesSession ==
  [][lastOp'.name \in {"startAnalyze", "analyzeOk", "analyzeFailed"}
       => UNCHANGED <<boundaryPath, cornerMarkers, isBoundaryLocked,
                      boundaryFromAI, constraints, attached>>]_vars

\* an analysis succeeded while a locked boundary was in place
C26_Witness ==
  /\ lastOp.name = "analyzeOk"
  /\ visionAnalysis = "data"
  /\ showAnalysis
  /\ ~plannerAnalyzing
  /\ isBoundaryLocked
  /\ Len(cornerMarkers) >= 3

\* C22: the processed member of a successful response to a request of type
\* 'constraints' has the shape of the normalized constraint set: it holds the
\* property boundary with its ring, so that processed.propertyBoundary
\* .coordinates gives a client the boundary.
C22_ConstraintsResponseHasBoundary ==
  (/\ lastOp.name = "POST"
   /\ routeRequest.handler = "visionAnalyze"
   /\ routeRequest.type = "constraints"
   /\ Len(routeRequest.content) = 1
   /\ routeRequest.content[1].kind = "json"
   /\ routeRequest.content[1].value.json = "object"
   /\ routeRequest.content[1].value.propertyBoundary.defined
   /\ routeResponse.ok)
    => /\ "propertyBoundary" \in DOMAIN routeResponse.body.processed
       /\ routeResponse.body.processed.propertyBoundary =
            routeResponse.normalized.propertyBoundary

\* C23: in the alternate aggregate mode a number parsed from the analysis,
\* 0 included, is the value emitted; the heuristic of 0.6 times the total
\* constrained area is emitted only when no number was parsed.
C23_ParsedAreaIsEmitted ==
  (lastOp.name = "rebuildVision" /\ layerProps.observer)
    => emitted = (IF layerProps.BuildableArea.defined
                  THEN 10 * layerProps.BuildableArea.value
                  ELSE 6 * totalConstrainedArea(constraints, 1))

\* C30: at most one drawing manager is on a map at a time and it is the one
\* the component holds; after the component is removed none is on a map;
\* while the component has a map its manager is on that map with the drawing
\* mode of the drawingMode prop.
C30_OneManagerWithPropMode ==
  /\ Cardinality(managers) <= 1
  /\ \A m \in managers : m.id = drawingManagerRef
  /\ ~toolsMounted => managers = {}
  /\ (toolsMounted /\ toolsMap # 0)
       => \E m \in managers :
            /\ m.id = drawingManagerRef
            /\ m.map = toolsMap
            /\ m.drawingMode = toolsMode

\* the effect ran again over an earlier manager and the new one has the
\* polygon mode
C30_Witness ==
  /\ lastOp.name = "renderTools"
  /\ lastOp.idx # 0
  /\ toolsMounted
  /\ toolsMode = "polygon"
  /\ managersCreated >= 2
  /\ managers = {[id |-> drawingManagerRef, map |-> toolsMap,
                  drawingMode |-> "polygon", listener |-> toolsCallback]}

====
